---- MODULE Spec2Model ----
(***************************************************************************)
(* A model of avaread: the readers of Avantes AvaSoft files                *)
(* (src/src/avaread/reader.py) over the record layouts of                  *)
(* src/src/avaread/AvaTypes.py.                                            *)
(*                                                                         *)
(* A file is a size and its non-zero bytes, addressed by offset.  The      *)
(* readers are modelled step by step: read_file probes and dispatches,     *)
(* AVSFile.__init__ reads the preamble and then one channel block per      *)
(* step, STRFile.__init__ reads its header and then one frame per step.    *)
(* After construction the accessors of the file object can be called.      *)
(*                                                                         *)
(* Floating point words are not decoded as IEEE-754: a float32 or float64  *)
(* word is identified with the little-endian integer of its low three      *)
(* bytes, and every word with a higher byte set with OutOfRange.  The      *)
(* generated samples are small integers, on which float subtraction is     *)
(* exact.                                                                  *)
(***************************************************************************)
EXTENDS Integers, Sequences, FiniteSets, TLC

\* ------------------------------------------------------------------ bounds
MaxChannels == 2
MaxPixel == 2
MaxFrames == 2

\* ------------------------------------------------------- record layouts
\* AvaTypes.py: all structures are packed (_pack_ = 1), so a field's offset
\* is the sum of the sizes before it.
SizeofAVSPreamble == 6
OffPreambleCount == 5
SizeofAVSInfoBlock == 322
OffBlockLength == 0
OffAVSSerial == 8
OffAVSStartPixel == 83
OffAVSStopPixel == 85
OffAVSTimestamp == 124
OffAVSFileDatetime == 128
SizeofSTRPreamble == 7
SizeofSTRInfoBlock == 329
OffSTRSerial == 5
OffSTRStartPixel == 80
OffSTRStopPixel == 82
AVS_SERIAL_LEN == 10
PADDING == 10
STRDataOffset == 10000
SizeofFloat == 4
SizeofDouble == 8

\* ------------------------------------------------------------- helpers
Min(a, b) == IF a < b THEN a ELSE b
Max(a, b) == IF a > b THEN a ELSE b

OutOfRange == 2147483646 + 1

\* The byte at offset i of file f; 0 where the file holds none.
ByteAt(f, i) == IF i >= 0 /\ i < f.size /\ i \in DOMAIN f.data THEN f.data[i] ELSE 0

\* Bytes left from position pos to the end of the file.
Avail(f, pos) == IF f.size > pos THEN f.size - pos ELSE 0

\* ctypes c_uint16, little endian.
U16At(f, i) == ByteAt(f, i) + 256 * ByteAt(f, i + 1)

\* ctypes c_uint32, little endian, as its two 16-bit halves.
U32At(f, i) == [hi |-> U16At(f, i + 2), lo |-> U16At(f, i)]

\* struct "h": int16, little endian, two's complement.
I16At(f, i) == IF U16At(f, i) >= 32768 THEN U16At(f, i) - 65536 ELSE U16At(f, i)

\* A numeric word of w bytes (float32, float64, native long).
WordAt(f, i, w) ==
    IF \E k \in 3..(w - 1) : ByteAt(f, i + k) # 0
    THEN OutOfRange
    ELSE ByteAt(f, i) + 256 * ByteAt(f, i + 1) + 65536 * ByteAt(f, i + 2)

\* ctypes (c_char * n).value: the bytes up to the first NUL.
RECURSIVE CharArrayFrom(_, _, _)
CharArrayFrom(f, i, n) ==
    IF n = 0 \/ ByteAt(f, i) = 0 THEN <<>>
    ELSE <<ByteAt(f, i)>> \o CharArrayFrom(f, i + 1, n - 1)

\* bytes.decode("utf-8", errors="ignore") of a c_char array: ASCII bytes are
\* kept; bytes that are not ASCII are dropped (the generated names are ASCII).
RECURSIVE DecodeIgnore(_)
DecodeIgnore(bs) ==
    IF bs = <<>> THEN <<>>
    ELSE (IF Head(bs) < 128 THEN <<Head(bs)>> ELSE <<>>) \o DecodeIgnore(Tail(bs))

\* ASCII codes used by the readers.
ChA == 65
ChR == 82
ChS == 83
ChT == 84
ChV == 86
MagicAVS == <<ChA, ChV, ChS>>
MagicSTR == <<ChS, ChT, ChR>>

\* ------------------------------------------------------------ file inputs
\* A file from a set of <<offset, byte>> writes, cut to size n.
MkFile(writes, n) ==
    LET live == {w \in writes : w[2] # 0 /\ w[1] < n}
    IN  [size |-> n,
         data |-> [o \in {w[1] : w \in live} |-> (CHOOSE w \in live : w[1] = o)[2]]]

WriteBytes(off, bs) == {<<off + k - 1, bs[k]>> : k \in 1..Len(bs)}
WriteU16(off, v) == {<<off, v % 256>>, <<off + 1, (v \div 256) % 256>>}

\* ---------------------------------------------------- numpy, as it is used
\* np.fromfile(fo, dtype, count): the number of items read when `items` whole
\* items are left in the file.  A negative count reads all of them; a short
\* file gives a shorter array, not an error.
FromFileCount(count, items) == IF count < 0 THEN items ELSE Min(count, items)

\* The array np.fromfile returns: n items of w bytes from position pos.
FromFile(f, pos, w, count) ==
    LET n == FromFileCount(count, Avail(f, pos) \div w)
    IN  [k \in 1..n |-> WordAt(f, pos + w * (k - 1), w)]

\* Reshape4T without the transposition of planes: flat.reshape(-1, 4), the
\* four values of a pixel taken from four neighbouring floats.
Reshape4TPixelMajor(flat) ==
    IF Len(flat) % 4 # 0 THEN [err |-> "ValueError", rows |-> <<>>]
    ELSE LET n == Len(flat) \div 4
         IN  [err |-> "none",
              rows |-> [p \in 1..n |-> <<flat[4 * p - 3], flat[4 * p - 2], flat[4 * p - 1], flat[4 * p]>>]]

\* flat.reshape(4, -1).T: rows of <<wavelength, scope, dark, ref>>, or
\* ValueError when the size is no multiple of 4.
Reshape4T(flat) ==
    IF Len(flat) % 4 # 0 THEN [err |-> "ValueError", rows |-> <<>>]
    ELSE LET n == Len(flat) \div 4
         IN  [err |-> "none",
              rows |-> [p \in 1..n |-> <<flat[p], flat[n + p], flat[2 * n + p], flat[3 * n + p]>>]]

\* a[start:stop] of a one-dimensional array, for start, stop >= 0.
Slice(a, start, stop) ==
    LET e == Min(stop, Len(a))
    IN  IF start >= e THEN <<>> ELSE [k \in 1..(e - start) |-> a[start + k]]

\* --------------------------------------------------- AVSChannel.from_buffer
\* readinto(struct): the bytes copied into the zero-initialised structure.
ReadInto(f, pos, size) == Min(size, Avail(f, pos))

AVSHeaderAt(f, pos) ==
    [blockLength |-> U16At(f, pos + OffBlockLength),
     SerialNumber |-> DecodeIgnore(CharArrayFrom(f, pos + OffAVSSerial, AVS_SERIAL_LEN)),
     StartPixel |-> U16At(f, pos + OffAVSStartPixel),
     StopPixel |-> U16At(f, pos + OffAVSStopPixel),
     timestamp |-> U32At(f, pos + OffAVSTimestamp),
     file_datetime |-> U32At(f, pos + OffAVSFileDatetime)]

NumPixels(header) == header.StopPixel - header.StartPixel + 1

\* BlockEnd without the padding between blocks.
BlockEndNoPadding(startBlock, header) == startBlock + header.blockLength

BlockEnd(startBlock, header) == startBlock + header.blockLength + PADDING

\* One call of AVSChannel.from_buffer(fo) with the stream at pos.
FromBuffer(f, pos) ==
    LET startBlock == pos
        got == ReadInto(f, pos, SizeofAVSInfoBlock)
        header == AVSHeaderAt(f, pos)
        count == 4 * NumPixels(header)
        flat == FromFile(f, pos + got, SizeofFloat, count)
        shaped == Reshape4T(flat)
    IN  [err |-> shaped.err,
         header |-> header,
         data |-> shaped.rows,
         nread |-> Len(flat),
         startBlock |-> startBlock,
         end |-> BlockEnd(startBlock, header),
         short |-> got < SizeofAVSInfoBlock \/ (count >= 0 /\ Len(flat) < count)]

\* ------------------------------------------------------------ AVSFile
AVSPreambleAt(f) ==
    [FileType |-> CharArrayFrom(f, 0, 3),
     channels |-> ByteAt(f, OffPreambleCount)]

\* ------------------------------------------------------------ read_file
\* fo.read(n): the bytes read at position 0.
ReadBytes(f, n) == [k \in 1..Min(n, f.size) |-> ByteAt(f, k - 1)]

\* seq[a:b] of Python, for 0 <= a <= b.
PySlice(s, a, b) == Slice(s, a, b)

IsCont(b) == b >= 128 /\ b <= 191

\* Whether bytes.decode() (strict UTF-8) accepts the bytes.
RECURSIVE Utf8Valid(_)
Utf8Valid(bs) ==
    IF bs = <<>> THEN TRUE
    ELSE LET b == Head(bs)
             n == Len(bs)
         IN  IF b < 128 THEN Utf8Valid(Tail(bs))
             ELSE IF b >= 194 /\ b <= 223
                  THEN n >= 2 /\ IsCont(bs[2]) /\ Utf8Valid(Tail(Tail(bs)))
             ELSE IF b >= 224 /\ b <= 239
                  THEN /\ n >= 3
                       /\ IsCont(bs[2])
                       /\ IsCont(bs[3])
                       /\ (b = 224 => bs[2] >= 160)
                       /\ (b = 237 => bs[2] <= 159)
                       /\ Utf8Valid(Tail(Tail(Tail(bs))))
             ELSE FALSE

\* str.upper() on ASCII text.
Upper(bs) == [k \in 1..Len(bs) |-> IF bs[k] >= 97 /\ bs[k] <= 122 THEN bs[k] - 32 ELSE bs[k]]

IsDigit(b) == b >= 48 /\ b <= 57
IsSpace(b) == b \in {9, 10, 11, 12, 13, 32}

\* int(b) of at most two bytes: the number, or -1000 for ValueError.
\* Python strips white space around the number and accepts one sign.
IntError == 0 - 1000
IntOfBytes(bs) ==
    IF Len(bs) = 1 /\ IsDigit(bs[1]) THEN bs[1] - 48
    ELSE IF Len(bs) = 2 /\ IsDigit(bs[1]) /\ IsDigit(bs[2]) THEN 10 * (bs[1] - 48) + (bs[2] - 48)
    ELSE IF Len(bs) = 2 /\ IsDigit(bs[1]) /\ IsSpace(bs[2]) THEN bs[1] - 48
    ELSE IF Len(bs) = 2 /\ IsSpace(bs[1]) /\ IsDigit(bs[2]) THEN bs[2] - 48
    ELSE IF Len(bs) = 2 /\ bs[1] = 43 /\ IsDigit(bs[2]) THEN bs[2] - 48
    ELSE IF Len(bs) = 2 /\ bs[1] = 45 /\ IsDigit(bs[2]) THEN 0 - (bs[2] - 48)
    ELSE IntError

\* file_version < 8, with file_version = int(prelude[3:5]) / 10.
VersionTooOld(n) == n < 80

\* What read_file does with the five bytes it probed: the parser it calls, or
\* the exception it raises.
Dispatch(prelude) ==
    LET tag == PySlice(prelude, 0, 3)
        ver == IntOfBytes(PySlice(prelude, 3, 5))
    IN  IF ~Utf8Valid(tag) THEN [err |-> "UnicodeDecodeError", to |-> "none"]
        ELSE IF ver = IntError THEN [err |-> "ValueError", to |-> "none"]
        ELSE IF Upper(tag) = MagicAVS
             THEN IF VersionTooOld(ver) THEN [err |-> "AvaReadException", to |-> "none"]
                  ELSE [err |-> "none", to |-> "AVSFile"]
        ELSE IF Upper(tag) = MagicSTR
             THEN IF VersionTooOld(ver) THEN [err |-> "AvaReadException", to |-> "none"]
                  ELSE [err |-> "none", to |-> "STRFile"]
        ELSE [err |-> "AvaReadException", to |-> "none"]

\* ------------------------------------------------------------ STRFile
\* The stream position np.fromfile leaves: past the items it read, or at the
\* end of the file when the file held fewer bytes than were asked for.
FromFileEnd(f, pos, w, count) ==
    LET n == FromFileCount(count, Avail(f, pos) \div w)
    IN  IF count >= 0 /\ n < count THEN Max(pos, f.size) ELSE pos + w * n

STRPreambleAt(f) ==
    [FileType |-> CharArrayFrom(f, 0, 3),
     frames |-> U16At(f, OffPreambleCount)]

STRHeaderAt(f, pos) ==
    [SerialNumber |-> DecodeIgnore(CharArrayFrom(f, pos + OffSTRSerial, AVS_SERIAL_LEN)),
     StartPixel |-> U16At(f, pos + OffSTRStartPixel),
     StopPixel |-> U16At(f, pos + OffSTRStopPixel)]

Zeros(n) == [k \in 1..n |-> 0]

\* STRFile.__init__ up to the frame loop: the preamble, the header, the pixel
\* count at offset 10000 and the three full-width arrays.
STRBegin(f) ==
    LET preamble == STRPreambleAt(f)
        gotP == ReadInto(f, 0, SizeofSTRPreamble)
        header == STRHeaderAt(f, gotP)
        gotH == ReadInto(f, gotP, SizeofSTRInfoBlock)
        pixels == I16At(f, STRDataOffset)
        p0 == STRDataOffset + 6 + pixels * SizeofDouble
        p1 == FromFileEnd(f, p0, SizeofDouble, pixels)
        p2 == FromFileEnd(f, p1, SizeofDouble, pixels)
        p3 == FromFileEnd(f, p2, SizeofDouble, pixels)
        wl == FromFile(f, p0, SizeofDouble, pixels)
        dk == FromFile(f, p1, SizeofDouble, pixels)
        rf == FromFile(f, p2, SizeofDouble, pixels)
        base == [preamble |-> preamble, header |-> header, pixels |-> 0,
                 wavelength |-> <<>>, dark |-> <<>>, ref |-> <<>>,
                 delay |-> <<>>, data |-> <<>>, end |-> 0]
        shortHead == gotP < SizeofSTRPreamble \/ gotH < SizeofSTRInfoBlock
    IN  IF preamble.FileType # MagicSTR
        THEN base @@ [err |-> "AvaReadException", short |-> gotP < SizeofSTRPreamble]
        ELSE IF Avail(f, STRDataOffset) < 6
        THEN base @@ [err |-> "struct.error", short |-> TRUE]
        ELSE IF p0 < 0
        THEN base @@ [err |-> "OSError", short |-> shortHead]
        ELSE IF pixels < 0
        THEN base @@ [err |-> "ValueError", short |-> shortHead]
        ELSE [err |-> "none", preamble |-> preamble, header |-> header, pixels |-> pixels,
              wavelength |-> wl, dark |-> dk, ref |-> rf,
              delay |-> Zeros(preamble.frames),
              data |-> [i \in 1..preamble.frames |-> Zeros(pixels)],
              end |-> p3,
              short |-> \/ shortHead
                        \/ Len(wl) < pixels \/ Len(dk) < pixels \/ Len(rf) < pixels]

\* data[:, i] = column: numpy broadcasts a one-item array over the column and
\* refuses every other length but the column's.
AssignColumn(pixels, col) ==
    IF Len(col) = pixels THEN [err |-> "none", col |-> col]
    ELSE IF Len(col) = 1 THEN [err |-> "none", col |-> [k \in 1..pixels |-> col[1]]]
    ELSE [err |-> "ValueError", col |-> <<>>]

\* One turn of the frame loop, with the stream at pos and sizeof(c_long) = long.
STRFrame(f, pos, pixels, long) ==
    LET col == FromFile(f, pos + long, SizeofDouble, pixels)
        put == AssignColumn(pixels, col)
    IN  IF Avail(f, pos) < long
        THEN [err |-> "struct.error", delay |-> 0, col |-> <<>>, end |-> pos, short |-> TRUE]
        ELSE [err |-> put.err,
              delay |-> WordAt(f, pos, long),
              col |-> put.col,
              end |-> FromFileEnd(f, pos + long, SizeofDouble, pixels),
              short |-> Len(col) < pixels]

\* ------------------------------------------------------------ accessors
\* AVSGetItemInt with the bound test off by one (key > len).
AVSGetItemIntOffByOne(chans, key) ==
    IF key > Len(chans) THEN [exc |-> "IndexError", idx |-> 0 - 1]
    ELSE IF key < 0 - Len(chans) THEN [exc |-> "IndexError", idx |-> 0 - 1]
    ELSE [exc |-> "none", idx |-> IF key < 0 THEN Len(chans) + key ELSE key]

\* AVSFile.__getitem__(key) for an int key: the position of the channel
\* returned (0-based), or the exception.
AVSGetItemInt(chans, key) ==
    IF key >= Len(chans) THEN [exc |-> "IndexError", idx |-> 0 - 1]
    ELSE IF key < 0 - Len(chans) THEN [exc |-> "IndexError", idx |-> 0 - 1]
    ELSE [exc |-> "none", idx |-> IF key < 0 THEN Len(chans) + key ELSE key]

\* ListIndex that finds the last position that holds key.
ListIndexLast(keys, key) == (CHOOSE k \in 1..Len(keys) : keys[k] = key /\ \A j \in (k + 1)..Len(keys) : keys[j] # key) - 1

\* list.index(key): the first position that holds key.
ListIndex(keys, key) == (CHOOSE k \in 1..Len(keys) : keys[k] = key /\ \A j \in 1..(k - 1) : keys[j] # key) - 1

\* AVSFile.__getitem__(key) for a serial number.
AVSGetItemKey(chans, key) ==
    LET keys == [k \in 1..Len(chans) |-> chans[k].header.SerialNumber]
    IN  IF \A k \in 1..Len(keys) : keys[k] # key
        THEN [exc |-> "KeyError", idx |-> 0 - 1]
        ELSE [exc |-> "none", idx |-> ListIndex(keys, key)]

\* len(channel): Python refuses a negative __len__.
ChannelLen(chan) ==
    IF NumPixels(chan.header) < 0 THEN [exc |-> "ValueError", val |-> 0]
    ELSE [exc |-> "none", val |-> NumPixels(chan.header)]

Column(data, c) == [p \in 1..Len(data) |-> data[p][c]]
ChannelWavelength(chan) == Column(chan.data, 1)
ChannelScope(chan) == Column(chan.data, 2)
ChannelDark(chan) == Column(chan.data, 3)
ChannelRef(chan) == Column(chan.data, 4)

\* a - b of two one-dimensional arrays under numpy's broadcasting.
Sub1D(a, b) ==
    IF Len(a) = Len(b) THEN [exc |-> "none", val |-> [k \in 1..Len(a) |-> a[k] - b[k]]]
    ELSE IF Len(b) = 1 THEN [exc |-> "none", val |-> [k \in 1..Len(a) |-> a[k] - b[1]]]
    ELSE IF Len(a) = 1 THEN [exc |-> "none", val |-> [k \in 1..Len(b) |-> a[1] - b[k]]]
    ELSE [exc |-> "ValueError", val |-> <<>>]

ChannelSignal(chan) == Sub1D(ChannelScope(chan), ChannelDark(chan))

\* The rows a[start:stop] keeps of an array of n rows.
SliceLen(n, start, stop) == IF start >= Min(stop, n) THEN 0 ELSE Min(stop, n) - start

\* STRFile.pixels
STRPixels(o) == o.header.StopPixel - o.header.StartPixel

STRWavelength(o) == Slice(o.wavelength, o.header.StartPixel, o.header.StopPixel)
STRDark(o) == Slice(o.dark, o.header.StartPixel, o.header.StopPixel)
STRRef(o) == Slice(o.ref, o.header.StartPixel, o.header.StopPixel)

\* STRFile.scope: data[StartPixel:StopPixel, :], an array of shape (rows, cols).
STRScope(o) ==
    LET n == SliceLen(o.pixels, o.header.StartPixel, o.header.StopPixel)
        m == Len(o.data)
    IN  [rows |-> n, cols |-> m,
         at |-> [p \in 1..n |-> [i \in 1..m |-> o.data[i][o.header.StartPixel + p]]]]

\* a - b of a (rows, cols) array and a one-dimensional array under numpy's
\* broadcasting: b is laid along the LAST axis of a.
Sub2D1D(a, b) ==
    IF a.cols = Len(b)
    THEN [exc |-> "none", rows |-> a.rows, cols |-> a.cols,
          at |-> [p \in 1..a.rows |-> [i \in 1..a.cols |-> a.at[p][i] - b[i]]]]
    ELSE IF Len(b) = 1
    THEN [exc |-> "none", rows |-> a.rows, cols |-> a.cols,
          at |-> [p \in 1..a.rows |-> [i \in 1..a.cols |-> a.at[p][i] - b[1]]]]
    ELSE IF a.cols = 1
    THEN [exc |-> "none", rows |-> a.rows, cols |-> Len(b),
          at |-> [p \in 1..a.rows |-> [i \in 1..Len(b) |-> a.at[p][1] - b[i]]]]
    ELSE [exc |-> "ValueError", rows |-> 0, cols |-> 0, at |-> <<>>]

\* STRFile.signal
STRSignal(o) == Sub2D1D(STRScope(o), STRDark(o))

\* STRFile.__getitem__(index)
STRGetItem(o, index) ==
    LET m == Len(o.data)
        i == IF index < 0 THEN m + index ELSE index
        n == SliceLen(o.pixels, o.header.StartPixel, o.header.StopPixel)
    IN  IF index >= m \/ index < 0 - m THEN [exc |-> "IndexError", val |-> <<>>]
        ELSE Sub1D([p \in 1..n |-> o.data[i + 1][o.header.StartPixel + p]], STRDark(o))

\* ------------------------------------------------------ _extract_datetime
\* A 32-bit unsigned word is kept as two 16-bit halves, [hi, lo], so that no
\* intermediate value leaves the range of TLC's 32-bit integers.
RECURSIVE Pow2(_)
Pow2(k) == IF k = 0 THEN 1 ELSE 2 * Pow2(k - 1)

\* w >> k, for 4 <= k < 32
Shr(w, k) ==
    IF k >= 16 THEN w.hi \div Pow2(k - 16)
    ELSE w.hi * Pow2(16 - k) + w.lo \div Pow2(k)

\* w % m, for m a power of two up to 2^16
ModWord(w, m) == w.lo % m

IsLeap(year) == year % 4 = 0 /\ (year % 100 # 0 \/ year % 400 = 0)

DaysInMonth(year, month) ==
    IF month = 2 THEN (IF IsLeap(year) THEN 29 ELSE 28)
    ELSE IF month \in {4, 6, 9, 11} THEN 30
    ELSE 31

\* datetime(year=, month=, day=, hour=, minute=): the date-time, or ValueError
\* for a field out of range (MINYEAR = 1, MAXYEAR = 9999).
MakeDatetime(year, month, day, hour, minute) ==
    IF /\ year >= 1 /\ year <= 9999
       /\ month >= 1 /\ month <= 12
       /\ day >= 1 /\ day <= DaysInMonth(year, month)
       /\ hour >= 0 /\ hour <= 23
       /\ minute >= 0 /\ minute <= 59
    THEN [exc |-> "none", year |-> year, month |-> month, day |-> day,
          hour |-> hour, minute |-> minute]
    ELSE [exc |-> "ValueError", year |-> 0, month |-> 0, day |-> 0, hour |-> 0, minute |-> 0]

\* ExtractDatetime with the day taken one bit too high (>> 12).
ExtractDatetimeDayShift(timestamp) ==
    LET year == Shr(timestamp, 20)
        month == Shr(timestamp, 16) % 16
        day == Shr(timestamp, 12) % 32
        hour == Shr(timestamp, 6) % 32
        minute == ModWord(timestamp, 64)
    IN  MakeDatetime(year, month, day, hour, minute)

ExtractDatetime(timestamp) ==
    LET year == Shr(timestamp, 20)
        month == Shr(timestamp, 16) % 16
        day == Shr(timestamp, 11) % 32
        hour == Shr(timestamp, 6) % 32
        minute == ModWord(timestamp, 64)
    IN  MakeDatetime(year, month, day, hour, minute)

\* Packing, as the format lays the fields out:
\* (year << 20) | (month << 16) | (day << 11) | (hour << 6) | minute.
RECURSIVE BitOr(_, _)
BitOr(a, b) ==
    IF a = 0 THEN b
    ELSE IF b = 0 THEN a
    ELSE (IF a % 2 = 1 \/ b % 2 = 1 THEN 1 ELSE 0) + 2 * BitOr(a \div 2, b \div 2)

\* v << k as a 32-bit word, for v < 2^16
Shl(v, k) ==
    IF k >= 16 THEN [hi |-> (v * Pow2(k - 16)) % 65536, lo |-> 0]
    ELSE [hi |-> v \div Pow2(16 - k), lo |-> (v % Pow2(16 - k)) * Pow2(k)]

OrWord(a, b) == [hi |-> BitOr(a.hi, b.hi), lo |-> BitOr(a.lo, b.lo)]

PackTimestamp(year, month, day, hour, minute) ==
    OrWord(OrWord(OrWord(OrWord(Shl(year, 20), Shl(month, 16)), Shl(day, 11)), Shl(hour, 6)),
           Shl(minute, 0))

\* ---------------------------------------------------------- StructMapping
\* The fields a structure declares, in order: name, kind of C type, offset
\* under 1-byte packing, and for a nested structure its type, for a char
\* array its length.
Field(name, kind, off) == [name |-> name, kind |-> kind, off |-> off, sub |-> "", len |-> 0]
Nested(name, sub, off) == [name |-> name, kind |-> "struct", off |-> off, sub |-> sub, len |-> 0]
Chars(name, len, off) == [name |-> name, kind |-> "chars", off |-> off, sub |-> "", len |-> len]

StructFields(type) ==
    CASE type = "AVSInfoBlock" ->
            <<Field("blockLength", "u16", 0), Field("Unused1", "array", 2),
              Field("channelIndex", "i8", 4), Field("measurementEnum", "u8", 5),
              Field("Unused2", "array", 6), Nested("ID", "AvsIdentityStruct", 8),
              Nested("Measurement", "MeasConfigStruct", 83), Field("timestamp", "u32", 124),
              Nested("Misc", "MiscInfoStruct", 128), Field("aFit", "array", 152),
              Chars("comment", 130, 192)>>
      [] type = "AvsIdentityStruct" ->
            <<Chars("SerialNumber", AVS_SERIAL_LEN, 0), Chars("UserFriendlyName", 64, 10),
              Field("Status", "u8", 74)>>
      [] type = "MeasConfigStruct" ->
            <<Field("StartPixel", "u16", 0), Field("StopPixel", "u16", 2),
              Field("IntegrationTime", "f32", 4), Field("IntegrationDelay", "u32", 8),
              Field("NrAverages", "u32", 12), Nested("CorDynDark", "DarkCorrectionStruct", 16),
              Nested("Smoothing", "SmoothingStruct", 18), Field("SaturationDetection", "u8", 21),
              Nested("Trigger", "TriggerStruct", 22), Nested("Control", "ControlSettingsStruct", 25)>>
      [] type = "DarkCorrectionStruct" ->
            <<Field("Enable", "u8", 0), Field("ForgetPercentage", "u8", 1)>>
      [] type = "SmoothingStruct" ->
            <<Field("SmoothPix", "u16", 0), Field("SmoothModel", "u8", 2)>>
      [] type = "TriggerStruct" ->
            <<Field("Mode", "u8", 0), Field("Source", "u8", 1), Field("SourceType", "u8", 2)>>
      [] type = "ControlSettingsStruct" ->
            <<Field("StrobeControl", "u16", 0), Field("LaserDelay", "u32", 2),
              Field("LaserWidth", "u32", 6), Field("LaserWaveLength", "f32", 10),
              Field("StoreToRam", "u16", 14)>>
      [] type = "MiscInfoStruct" ->
            <<Field("file_datetime", "u32", 0), Field("detectorTemp", "f32", 4),
              Field("boardTemp", "f32", 8), Field("skip_float", "f32", 12),
              Field("ColorTemperature", "f32", 16), Field("CalIntTime", "f32", 20)>>

\* struct._map: the enumeration a field is mapped to.
StructMap(type) ==
    CASE type = "AVSInfoBlock" -> [measurementEnum |-> "MeasurementEnum"]
      [] type = "AvsIdentityStruct" -> [Status |-> "DeviceStatus"]
      [] type = "TriggerStruct" ->
            [Mode |-> "TrigMode", Source |-> "TrigSource", SourceType |-> "TrigKind"]
      [] OTHER -> <<>>

\* The values of the members an enumeration declares.
EnumMembers(enum) ==
    CASE enum = "DeviceStatus" -> 0..7
      [] enum = "MeasurementEnum" -> 0..7
      [] enum = "TrigMode" -> {0, 1}
      [] enum = "TrigSource" -> {0, 1, 2}
      [] enum = "TrigKind" -> {0, 1}

\* EnumLookup that answers a value no member has with the member of value 0.
EnumLookupDefault(enum, raw) ==
    [exc |-> "none",
     val |-> [enum |-> enum, value |-> IF raw \in EnumMembers(enum) THEN raw ELSE 0]]

\* Enum(raw): the member of that value, or ValueError.
EnumLookup(enum, raw) ==
    IF raw \in EnumMembers(enum)
    THEN [exc |-> "none", val |-> [enum |-> enum, value |-> raw]]
    ELSE [exc |-> "ValueError", val |-> 0]

\* getattr(struct, name) of ctypes for a field that is no array and no
\* structure.
FieldRaw(f, at, kind) ==
    CASE kind = "u8" -> ByteAt(f, at)
      [] kind = "i8" -> IF ByteAt(f, at) >= 128 THEN ByteAt(f, at) - 256 ELSE ByteAt(f, at)
      [] kind = "u16" -> U16At(f, at)
      [] kind = "u32" -> U32At(f, at)
      [] kind = "f32" -> WordAt(f, at, SizeofFloat)

\* StructMapping.__getattr__(name), the mapping m being of the structure of
\* type m.type that lies at offset m.at of the bytes f.
StructGetAttr(f, m, name) ==
    LET flds == StructFields(m.type)
        idx == {k \in 1..Len(flds) : flds[k].name = name}
    IN  IF idx = {} THEN [exc |-> "AttributeError", val |-> 0]
        ELSE LET fld == flds[CHOOSE k \in idx : TRUE]
                 at == m.at + fld.off
             IN  IF fld.kind = "chars"
                 THEN [exc |-> "none", val |-> DecodeIgnore(CharArrayFrom(f, at, fld.len))]
                 ELSE IF fld.kind = "array"
                 THEN [exc |-> "none", val |-> [array |-> at]]
                 ELSE IF name \in DOMAIN StructMap(m.type)
                 THEN EnumLookup(StructMap(m.type)[name], FieldRaw(f, at, fld.kind))
                 ELSE IF fld.kind = "struct"
                 THEN [exc |-> "none", val |-> [type |-> fld.sub, at |-> at]]
                 ELSE [exc |-> "none", val |-> FieldRaw(f, at, fld.kind)]

\* mapping.a.b.c: one __getattr__ per name, each on the mapping the one
\* before returned.
RECURSIVE GetPath(_, _, _)
GetPath(f, m, path) ==
    LET r == StructGetAttr(f, m, Head(path))
    IN  IF Len(path) = 1 \/ r.exc # "none" THEN r
        ELSE GetPath(f, r.val, Tail(path))

\* ------------------------------------------------------------------ dates
\* The names AVSInfoBlock._fields_ declares.
AVSInfoBlockFields ==
    {"blockLength", "Unused1", "channelIndex", "measurementEnum", "Unused2", "ID",
     "Measurement", "timestamp", "Misc", "aFit", "comment"}

NoDate(exc) == [exc |-> exc, year |-> 0, month |-> 0, day |-> 0, hour |-> 0, minute |-> 0]

\* getattr(channel, name) for a name that is no attribute of the class: the
\* field of the header of that name, or AttributeError.
ChannelGetAttr(chan, name) ==
    IF name \notin AVSInfoBlockFields THEN [exc |-> "AttributeError", val |-> 0]
    ELSE [exc |-> "none",
          val |-> CASE name = "timestamp" -> chan.header.timestamp
                    [] name = "blockLength" -> chan.header.blockLength
                    [] OTHER -> 0]

\* AVSChannel.date: _extract_datetime(self.Timestamp)
ChannelDate(chan) ==
    LET stamp == ChannelGetAttr(chan, "Timestamp")
    IN  IF stamp.exc # "none" THEN NoDate(stamp.exc) ELSE ExtractDatetime(stamp.val)

\* AVSFile.date: self.channels[0].date
AVSFileDate(chans) ==
    IF Len(chans) = 0 THEN NoDate("IndexError") ELSE ChannelDate(chans[1])


\* ------------------------------------------------------- generated files
\* Files are laid out as the format has them (the layout the readers walk) and
\* then cut to a size, which may fall inside any record.
SerialA == <<ChA>>
SerialB == <<ChA + 1>>
Version80 == <<56, 48>>

\* The sample written for channel (or frame) c, plane k, pixel p.
Sample(c, k, p) == 1 + (k + 1) * p + 8 * k + 32 * c

\* The pixel ranges of the generated headers: the whole sensor, a range that
\* starts after pixel 0, one pixel, and the ranges a damaged header gives (no
\* pixel, fewer than none).
PixelRanges == <<<<0, MaxPixel>>, <<1, MaxPixel>>, <<0, 0>>, <<1, 0>>, <<2, 0>>>>

\* The pixels a channel's payload holds.
Written(kind) == Max(kind.range[2] - kind.range[1] + 1, 0)

NaturalLength(kind, extra) == SizeofAVSInfoBlock + 4 * SizeofFloat * Written(kind) + extra

\* The date channel i of a generated file was stored on, packed.
StoredOn(i) == PackTimestamp(2024, 2, 29, 23, i)

RECURSIVE BlockStart(_, _, _)
BlockStart(kinds, extra, i) ==
    IF i = 1 THEN SizeofAVSPreamble
    ELSE BlockStart(kinds, extra, i - 1) + NaturalLength(kinds[i - 1], extra) + PADDING

BlockWrites(kinds, extra, i) ==
    LET at == BlockStart(kinds, extra, i)
        n == Written(kinds[i])
    IN  WriteU16(at + OffBlockLength, NaturalLength(kinds[i], extra))
        \cup WriteBytes(at + OffAVSSerial, kinds[i].sn)
        \cup WriteU16(at + OffAVSStartPixel, kinds[i].range[1])
        \cup WriteU16(at + OffAVSStopPixel, kinds[i].range[2])
        \cup WriteU16(at + OffAVSFileDatetime, StoredOn(i).lo)
        \cup WriteU16(at + OffAVSFileDatetime + 2, StoredOn(i).hi)
        \cup {<<at + SizeofAVSInfoBlock + SizeofFloat * (k * n + p), Sample(i - 1, k, p)>> :
                k \in 0..3, p \in 0..(n - 1)}

AVSWrites(tag, ver, kinds, extra) ==
    WriteBytes(0, tag) \cup WriteBytes(3, ver) \cup {<<OffPreambleCount, Len(kinds)>>}
    \cup UNION {BlockWrites(kinds, extra, i) : i \in 1..Len(kinds)}

AVSFullSize(kinds, extra) == BlockStart(kinds, extra, Len(kinds) + 1)

\* The sizes a file of these channels is cut to: whole, without its last
\* padding, inside the last payload, inside the last header, inside the
\* preamble.
AVSCuts(kinds, extra) ==
    LET full == AVSFullSize(kinds, extra)
    IN  IF Len(kinds) = 0 THEN {full, 5, 3}
        ELSE LET last == BlockStart(kinds, extra, Len(kinds))
                 payload == last + SizeofAVSInfoBlock
                 stop == payload + 4 * SizeofFloat * Written(kinds[Len(kinds)])
             IN  {full, stop, stop - 1, stop - SizeofFloat, stop - 4 * SizeofFloat,
                  payload, last + OffAVSStopPixel, last + 1, 5, 3}

\* The channels of a generated file: channel i takes the range `step` places
\* after its predecessor's, and the serial numbers either alternate or are
\* all the same.
KindSeq(n, first, step, same) ==
    [i \in 1..n |->
        [range |-> PixelRanges[((first + step * (i - 1) - 1) % Len(PixelRanges)) + 1],
         sn |-> IF same \/ i % 2 = 1 THEN SerialA ELSE SerialB]]

KindSeqs ==
    {KindSeq(n, first, step, same) :
        n \in 0..MaxChannels, first \in 1..Len(PixelRanges), step \in 0..2, same \in BOOLEAN}

AVSFiles ==
    UNION {{MkFile(AVSWrites(MagicAVS, Version80, kinds, extra), n) : n \in AVSCuts(kinds, extra)} :
            kinds \in KindSeqs, extra \in {0, 4}}

\* A Store-to-RAM file: `width` pixels of sensor, `frames` frames, each delay
\* written in dw bytes.
STRKinds ==
    {k \in [frames : 0..MaxFrames, width : 0..(MaxPixel + 1), start : 0..1,
            stop : 0..(MaxPixel + 1), dw : {4, 8}] :
        k.stop \in {k.width - 1, k.width}}

STRArraysAt(k) == STRDataOffset + 6 + SizeofDouble * k.width
STRFramesAt(k) == STRArraysAt(k) + 3 * SizeofDouble * k.width
STRFullSize(k) == STRFramesAt(k) + k.frames * (k.dw + SizeofDouble * k.width)

STRWrites(tag, ver, k) ==
    WriteBytes(0, tag) \cup WriteBytes(3, ver) \cup WriteU16(OffPreambleCount, k.frames)
    \cup WriteBytes(SizeofSTRPreamble + OffSTRSerial, SerialA)
    \cup WriteU16(SizeofSTRPreamble + OffSTRStartPixel, k.start)
    \cup WriteU16(SizeofSTRPreamble + OffSTRStopPixel, k.stop)
    \cup WriteU16(STRDataOffset, k.width) \cup WriteU16(STRDataOffset + 3, k.width)
    \cup {<<STRArraysAt(k) + SizeofDouble * (a * k.width + p), Sample(0, a, p)>> :
            a \in 0..2, p \in 0..(k.width - 1)}
    \cup {<<STRFramesAt(k) + i * (k.dw + SizeofDouble * k.width), 5 + i>> : i \in 0..(k.frames - 1)}
    \cup {<<STRFramesAt(k) + i * (k.dw + SizeofDouble * k.width) + k.dw + SizeofDouble * p,
            Sample(i + 1, 3, p)>> : i \in 0..(k.frames - 1), p \in 0..(k.width - 1)}

\* The sizes a Store-to-RAM file is cut to: whole, with bytes after the last
\* frame, inside the last frame, inside the arrays, inside the pixel count,
\* inside the header, inside the preamble.
STRCuts(k) ==
    LET full == STRFullSize(k)
    IN  {full, full + 4 * k.frames, full - 1, full - SizeofDouble,
         STRFramesAt(k) + 2, STRFramesAt(k) - SizeofDouble,
         STRDataOffset + 3, SizeofSTRPreamble + OffSTRStopPixel, 3}

STRFiles == UNION {{MkFile(STRWrites(MagicSTR, Version80, k), n) : n \in STRCuts(k)} : k \in STRKinds}

\* Files that differ in their five leading bytes: tags in either case, tags
\* that are no format, bytes that are no UTF-8, versions that are no number.
ProbeTags ==
    {MagicAVS, MagicSTR, <<97, 118, 115>>, <<ChS, 116, ChR>>, <<88, 89, 90>>,
     <<255, 254, ChA>>, <<195, 169, ChA>>, <<ChA, ChV, 0>>}
ProbeVersions == {Version80, <<55, 57>>, <<57, 48>>, <<97, 98>>, <<56, 32>>, <<45, 53>>, <<56, 0>>}
ProbeKinds == <<[range |-> <<0, 1>>, sn |-> SerialA]>>
ProbeSTR == [frames |-> 1, width |-> 2, start |-> 0, stop |-> 2, dw |-> 4]

ProbeFiles ==
    {MkFile(AVSWrites(tag, ver, ProbeKinds, 0), n) :
        tag \in ProbeTags, ver \in ProbeVersions, n \in {AVSFullSize(ProbeKinds, 0), 4, 3, 0}}
    \cup {MkFile(STRWrites(tag, ver, ProbeSTR), STRFullSize(ProbeSTR)) :
            tag \in ProbeTags, ver \in ProbeVersions}
    \cup {MkFile(WriteU16(STRDataOffset, 65535)
                    \cup {w \in STRWrites(MagicSTR, Version80, ProbeSTR) :
                            w[1] \notin {STRDataOffset, STRDataOffset + 1}},
                 STRFullSize(ProbeSTR))}

Files == AVSFiles \cup STRFiles \cup ProbeFiles

\* ------------------------------------------------------------- the state
VARIABLES
    file,        \* the bytes at the path
    pathKind,    \* "file", "dir" or "missing": what the path names
    entry,       \* the operation the caller invoked
    pc,          \* where the call stands
    pos,         \* the position of the open stream
    nopen,       \* the file handles that are open
    err,         \* the exception raised, or "none"
    prelude,     \* read_file: the five bytes probed
    preamble,    \* AVSFile.preamble
    channels,    \* AVSFile.channels
    starts,      \* startBlock of each from_buffer call so far
    shortRead,   \* whether a read met the end of the file before its count
    longSize,    \* sizeof(c_long) of the platform, once STRFile has asked for it
    strf,        \* the STRFile under construction
    framesDone,  \* the frames the loop has read
    framesAt,    \* the stream position at which the frame loop began
    result,      \* "AVS" or "STR" once a file object is returned
    out,         \* the outcome of the last accessor call
    ts           \* a packed timestamp on its way through _extract_datetime

vars == <<file, pathKind, entry, pc, pos, nopen, err, prelude, preamble, channels, starts,
          shortRead, longSize, strf, framesDone, framesAt, result, out, ts>>

NoPreamble == [FileType |-> <<>>, channels |-> 0]
NoSTR == [preamble |-> [FileType |-> <<>>, frames |-> 0],
          header |-> [SerialNumber |-> <<>>, StartPixel |-> 0, StopPixel |-> 0],
          pixels |-> 0, wavelength |-> <<>>, dark |-> <<>>, ref |-> <<>>,
          delay |-> <<>>, data |-> <<>>]
NoOut == [op |-> "none", arg |-> 0, exc |-> "none", val |-> 0]

EmptyFile == MkFile({}, 0)
NoTimestamp == [stage |-> "none"]

Init ==
    /\ ts = NoTimestamp
    /\ \/ /\ pathKind = "file"
          /\ file \in Files
          /\ entry = "read_file"
       \/ /\ pathKind = "file"
          /\ file \in ProbeFiles
          /\ entry \in {"AVSFile", "STRFile"}
       \/ /\ pathKind \in {"dir", "missing"}
          /\ file = EmptyFile
          /\ entry \in {"read_file", "AVSFile", "STRFile"}
    /\ pc = "start"
    /\ pos = 0
    /\ nopen = 0
    /\ err = "none"
    /\ prelude = <<>>
    /\ preamble = NoPreamble
    /\ channels = <<>>
    /\ starts = <<>>
    /\ shortRead = FALSE
    /\ longSize = 0
    /\ strf = NoSTR
    /\ framesDone = 0
    /\ framesAt = 0
    /\ result = "none"
    /\ out = NoOut

\* ------------------------------------------------------------ read_file
\* read_file: the path checks, then `with file_path.open("rb") as fo:
\* prelude = fo.read(5)`, the handle still open.
ReadFileOpen ==
    /\ pc = "start"
    /\ entry = "read_file"
    /\ IF pathKind # "file"
       THEN /\ pc' = "failed"
            /\ err' = "FileNotFoundError"
            /\ UNCHANGED <<nopen, prelude, pos, shortRead>>
       ELSE /\ pc' = "probing"
            /\ nopen' = nopen + 1
            /\ prelude' = ReadBytes(file, 5)
            /\ pos' = Len(prelude')
            /\ UNCHANGED <<err, shortRead>>
    /\ UNCHANGED <<ts, file, pathKind, entry, preamble, channels, starts, longSize, strf,
                   framesDone, framesAt, result, out>>

\* ReadFileClose with the probe handle left open (no with block).
ReadFileCloseLeak ==
    /\ pc = "probing"
    /\ pc' = "probed"
    /\ UNCHANGED <<ts, file, pathKind, entry, pos, nopen, err, prelude, preamble, channels,
                   starts, shortRead, longSize, strf, framesDone, framesAt, result, out>>

\* The end of read_file's with block.
ReadFileClose ==
    /\ pc = "probing"
    /\ nopen' = nopen - 1
    /\ pc' = "probed"
    /\ UNCHANGED <<ts, file, pathKind, entry, pos, err, prelude, preamble, channels, starts,
                   shortRead, longSize, strf, framesDone, framesAt, result, out>>

\* The tag and version tests of read_file.
ReadFileDispatch ==
    /\ pc = "probed"
    /\ LET d == Dispatch(prelude)
       IN  /\ err' = d.err
           /\ pc' = IF d.err # "none" THEN "failed"
                    ELSE IF d.to = "AVSFile" THEN "avs_new" ELSE "str_new"
    /\ UNCHANGED <<ts, file, pathKind, entry, pos, nopen, prelude, preamble, channels, starts,
                   shortRead, longSize, strf, framesDone, framesAt, result, out>>

\* What Path.open raises when the path names no regular file.
OpenError == IF pathKind = "missing" THEN "FileNotFoundError" ELSE "IsADirectoryError"

\* ------------------------------------------------------------ AVSFile
\* AVSFile.__init__ up to the channel loop: open, read the preamble, compare
\* the magic bytes.
AVSOpen ==
    /\ \/ pc = "avs_new"
       \/ pc = "start" /\ entry = "AVSFile"
    /\ IF pathKind # "file"
       THEN /\ pc' = "failed"
            /\ err' = OpenError
            /\ UNCHANGED <<nopen, preamble, pos, shortRead>>
       ELSE /\ nopen' = nopen + 1
            /\ preamble' = AVSPreambleAt(file)
            /\ pos' = ReadInto(file, 0, SizeofAVSPreamble)
            /\ shortRead' = (pos' < SizeofAVSPreamble)
            /\ IF preamble'.FileType # MagicAVS
               THEN pc' = "raising" /\ err' = "AvaReadException"
               ELSE pc' = "avs_chan" /\ UNCHANGED err
    /\ UNCHANGED <<ts, file, pathKind, entry, prelude, channels, starts, longSize, strf,
                   framesDone, framesAt, result, out>>

\* One element of [AVSChannel.from_buffer(fo) for _ in range(channels)].
AVSChannelRead ==
    /\ pc = "avs_chan"
    /\ Len(channels) < preamble.channels
    /\ LET r == FromBuffer(file, pos)
       IN  /\ starts' = Append(starts, r.startBlock)
           /\ shortRead' = (shortRead \/ r.short)
           /\ IF r.err # "none"
              THEN /\ pc' = "raising"
                   /\ err' = r.err
                   /\ UNCHANGED <<channels, pos>>
              ELSE /\ channels' = Append(channels, [header |-> r.header, data |-> r.data, nread |-> r.nread])
                   /\ pos' = r.end
                   /\ UNCHANGED <<pc, err>>
    /\ UNCHANGED <<ts, file, pathKind, entry, nopen, prelude, preamble, longSize, strf,
                   framesDone, framesAt, result, out>>

\* The end of AVSFile.__init__: the with block closes the handle.
AVSReturn ==
    /\ pc = "avs_chan"
    /\ Len(channels) = preamble.channels
    /\ nopen' = nopen - 1
    /\ pc' = "done"
    /\ result' = "AVS"
    /\ UNCHANGED <<ts, file, pathKind, entry, pos, err, prelude, preamble, channels, starts,
                   shortRead, longSize, strf, framesDone, framesAt, out>>

\* An exception leaves a with block: the handle is closed, the call fails.
RaiseExit ==
    /\ pc = "raising"
    /\ nopen' = nopen - 1
    /\ pc' = "failed"
    /\ UNCHANGED <<ts, file, pathKind, entry, pos, err, prelude, preamble, channels, starts,
                   shortRead, longSize, strf, framesDone, framesAt, result, out>>

\* ------------------------------------------------------------ STRFile
\* STRFile.__init__ up to the frame loop.  sizeof(c_long) is the platform's:
\* 4 (Windows, 32-bit) or 8 (64-bit Linux and macOS).
STROpen ==
    /\ \/ pc = "str_new"
       \/ pc = "start" /\ entry = "STRFile"
    /\ IF pathKind # "file"
       THEN /\ pc' = "failed"
            /\ err' = OpenError
            /\ UNCHANGED <<nopen, pos, shortRead, longSize, strf, framesAt>>
       ELSE \E long \in {4, 8} :
            LET b == STRBegin(file)
            IN  /\ nopen' = nopen + 1
                /\ longSize' = long
                /\ shortRead' = b.short
                /\ IF b.err # "none"
                   THEN /\ pc' = "raising"
                        /\ err' = b.err
                        /\ UNCHANGED <<pos, strf, framesAt>>
                   ELSE /\ pc' = "str_frame"
                        /\ strf' = [preamble |-> b.preamble, header |-> b.header,
                                    pixels |-> b.pixels, wavelength |-> b.wavelength,
                                    dark |-> b.dark, ref |-> b.ref,
                                    delay |-> b.delay, data |-> b.data]
                        /\ pos' = b.end
                        /\ framesAt' = b.end
                        /\ UNCHANGED err
    /\ UNCHANGED <<ts, file, pathKind, entry, prelude, preamble, channels, starts,
                   framesDone, result, out>>

\* One turn of `for i in range(self.preamble.frames)`.
STRFrameRead ==
    /\ pc = "str_frame"
    /\ framesDone < strf.preamble.frames
    /\ LET r == STRFrame(file, pos, strf.pixels, longSize)
           i == framesDone + 1
       IN  /\ shortRead' = (shortRead \/ r.short)
           /\ IF r.err # "none"
              THEN /\ pc' = "raising"
                   /\ err' = r.err
                   /\ UNCHANGED <<strf, pos, framesDone>>
              ELSE /\ strf' = [strf EXCEPT !.delay[i] = r.delay, !.data[i] = r.col]
                   /\ pos' = r.end
                   /\ framesDone' = i
                   /\ UNCHANGED <<pc, err>>
    /\ UNCHANGED <<ts, file, pathKind, entry, nopen, prelude, preamble, channels, starts,
                   longSize, framesAt, result, out>>

\* The end of STRFile.__init__.
STRReturn ==
    /\ pc = "str_frame"
    /\ framesDone = strf.preamble.frames
    /\ nopen' = nopen - 1
    /\ pc' = "done"
    /\ result' = "STR"
    /\ UNCHANGED <<ts, file, pathKind, entry, pos, err, prelude, preamble, channels, starts,
                   shortRead, longSize, strf, framesDone, framesAt, out>>

\* ------------------------------------------------------ accessor calls
\* What a call on the returned object leaves unchanged: everything but `out`.
ObjectUnchanged ==
    UNCHANGED <<ts, file, pathKind, entry, pc, pos, nopen, err, prelude, preamble, channels,
                starts, shortRead, longSize, strf, framesDone, framesAt, result>>

SerialKeys == {SerialA, SerialB, <<ChA + 2>>, <<>>}

\* file[key], key an int
AVSIndex ==
    /\ pc = "done" /\ result = "AVS"
    /\ \E key \in (0 - Len(channels) - 1)..(Len(channels) + 1) :
        LET r == AVSGetItemInt(channels, key)
        IN  out' = [op |-> "index", arg |-> key, exc |-> r.exc, val |-> r.idx]
    /\ ObjectUnchanged

\* file[key], key a serial number
AVSLookup ==
    /\ pc = "done" /\ result = "AVS"
    /\ \E key \in SerialKeys :
        LET r == AVSGetItemKey(channels, key)
        IN  out' = [op |-> "lookup", arg |-> key, exc |-> r.exc, val |-> r.idx]
    /\ ObjectUnchanged

\* len(file)
AVSLen ==
    /\ pc = "done" /\ result = "AVS"
    /\ out' = [op |-> "len", arg |-> 0, exc |-> "none", val |-> preamble.channels]
    /\ ObjectUnchanged

\* len(file[i]) and file[i].pixels
AVSChannelLen ==
    /\ pc = "done" /\ result = "AVS"
    /\ \E i \in 1..Len(channels) :
        LET r == ChannelLen(channels[i])
        IN  out' = [op |-> "channel_len", arg |-> i - 1, exc |-> r.exc, val |-> r.val]
    /\ ObjectUnchanged

\* file[i].signal
AVSChannelSignal ==
    /\ pc = "done" /\ result = "AVS"
    /\ \E i \in 1..Len(channels) :
        LET r == ChannelSignal(channels[i])
        IN  out' = [op |-> "channel_signal", arg |-> i - 1, exc |-> r.exc, val |-> r.val]
    /\ ObjectUnchanged

\* file[i].wavelength, file[i].scope, file[i].dark, file[i].ref
AVSChannelPlane ==
    /\ pc = "done" /\ result = "AVS"
    /\ \E i \in 1..Len(channels) :
        \/ out' = [op |-> "channel_wavelength", arg |-> i - 1, exc |-> "none",
                   val |-> ChannelWavelength(channels[i])]
        \/ out' = [op |-> "channel_scope", arg |-> i - 1, exc |-> "none",
                   val |-> ChannelScope(channels[i])]
        \/ out' = [op |-> "channel_dark", arg |-> i - 1, exc |-> "none",
                   val |-> ChannelDark(channels[i])]
        \/ out' = [op |-> "channel_ref", arg |-> i - 1, exc |-> "none",
                   val |-> ChannelRef(channels[i])]
    /\ ObjectUnchanged

\* file[i].date
AVSChannelDate ==
    /\ pc = "done" /\ result = "AVS"
    /\ \E i \in 1..Len(channels) :
        LET r == ChannelDate(channels[i])
        IN  out' = [op |-> "channel_date", arg |-> i - 1, exc |-> r.exc, val |-> r]
    /\ ObjectUnchanged

\* file.date
AVSFileDateRead ==
    /\ pc = "done" /\ result = "AVS"
    /\ LET r == AVSFileDate(channels)
       IN  out' = [op |-> "file_date", arg |-> 0, exc |-> r.exc, val |-> r]
    /\ ObjectUnchanged

\* file.pixels of a STRFile
STRAccessPixels ==
    /\ pc = "done" /\ result = "STR"
    /\ out' = [op |-> "str_pixels", arg |-> 0, exc |-> "none", val |-> STRPixels(strf)]
    /\ ObjectUnchanged

\* file.wavelength, file.dark, file.ref of a STRFile
STRAccessArray ==
    /\ pc = "done" /\ result = "STR"
    /\ \/ out' = [op |-> "str_wavelength", arg |-> 0, exc |-> "none", val |-> STRWavelength(strf)]
       \/ out' = [op |-> "str_dark", arg |-> 0, exc |-> "none", val |-> STRDark(strf)]
       \/ out' = [op |-> "str_ref", arg |-> 0, exc |-> "none", val |-> STRRef(strf)]
    /\ ObjectUnchanged

\* file.scope of a STRFile
STRAccessScope ==
    /\ pc = "done" /\ result = "STR"
    /\ out' = [op |-> "str_scope", arg |-> 0, exc |-> "none", val |-> STRScope(strf)]
    /\ ObjectUnchanged

\* file.signal of a STRFile
STRAccessSignal ==
    /\ pc = "done" /\ result = "STR"
    /\ LET r == STRSignal(strf)
       IN  out' = [op |-> "str_signal", arg |-> 0, exc |-> r.exc,
                   val |-> [rows |-> r.rows, cols |-> r.cols, at |-> r.at]]
    /\ ObjectUnchanged

\* file[index] of a STRFile
STRIndex ==
    /\ pc = "done" /\ result = "STR"
    /\ \E index \in (0 - Len(strf.data) - 1)..(Len(strf.data) + 1) :
        LET r == STRGetItem(strf, index)
        IN  out' = [op |-> "str_index", arg |-> index, exc |-> r.exc, val |-> r.val]
    /\ ObjectUnchanged

Next ==
    \/ ReadFileOpen
    \/ ReadFileClose
    \/ ReadFileDispatch
    \/ AVSOpen
    \/ AVSChannelRead
    \/ AVSReturn
    \/ RaiseExit
    \/ STROpen
    \/ STRFrameRead
    \/ STRReturn
    \/ AVSIndex
    \/ AVSLookup
    \/ AVSLen
    \/ AVSChannelLen
    \/ AVSChannelSignal
    \/ AVSChannelPlane
    \/ AVSChannelDate
    \/ AVSFileDateRead
    \/ STRAccessPixels
    \/ STRAccessArray
    \/ STRAccessScope
    \/ STRAccessSignal
    \/ STRIndex

Spec == Init /\ [][Next]_vars

\* ------------------------------------------- the timestamp on its own
\* The tuples packed: the first and last year of the field, years around the
\* leap rules, every month, the days on which months differ.
TimestampInputs ==
    [year : {0, 1, 1900, 2000, 2023, 2024, 2047, 2048, 4095},
     month : 1..12,
     day : {1, 28, 29, 30, 31},
     hour : {0, 12, 23},
     minute : {0, 59}]

InitTS ==
    /\ \E t \in TimestampInputs : ts = [stage |-> "tuple", in |-> t]
    /\ file = EmptyFile
    /\ pathKind = "file"
    /\ entry = "none"
    /\ pc = "start"
    /\ pos = 0
    /\ nopen = 0
    /\ err = "none"
    /\ prelude = <<>>
    /\ preamble = NoPreamble
    /\ channels = <<>>
    /\ starts = <<>>
    /\ shortRead = FALSE
    /\ longSize = 0
    /\ strf = NoSTR
    /\ framesDone = 0
    /\ framesAt = 0
    /\ result = "none"
    /\ out = NoOut

TSUnchanged ==
    UNCHANGED <<file, pathKind, entry, pc, pos, nopen, err, prelude, preamble, channels,
                starts, shortRead, longSize, strf, framesDone, framesAt, result, out>>

\* The tuple is packed into the 32-bit word of the file.
TSPack ==
    /\ ts.stage = "tuple"
    /\ ts' = [stage |-> "packed", in |-> ts.in,
              word |-> PackTimestamp(ts.in.year, ts.in.month, ts.in.day, ts.in.hour, ts.in.minute)]
    /\ TSUnchanged

\* _extract_datetime(timestamp)
TSDecode ==
    /\ ts.stage = "packed"
    /\ ts' = [stage |-> "decoded", in |-> ts.in, word |-> ts.word,
              date |-> ExtractDatetime(ts.word)]
    /\ TSUnchanged

NextTS == TSPack \/ TSDecode

SpecTS == InitTS /\ [][NextTS]_vars

\* ------------------------------------------------- a header and its mapping
\* The bytes of an AVSInfoBlock: every enumerated field holds one of `raws`,
\* the other fields a value of their own.
HeaderBytes(raws) ==
    MkFile(WriteU16(OffBlockLength, SizeofAVSInfoBlock)
           \cup {<<5, raws[1]>>, <<82, raws[2]>>, <<105, raws[3]>>, <<106, raws[4]>>,
                 <<107, raws[5]>>}
           \cup WriteBytes(OffAVSSerial, SerialA)
           \cup WriteU16(OffAVSStartPixel, 1)
           \cup WriteU16(OffAVSStopPixel, MaxPixel),
           SizeofAVSInfoBlock)

\* The raw bytes of measurementEnum, ID.Status, Trigger.Mode, Trigger.Source
\* and Trigger.SourceType: members, and values no member has.
EnumRaws == {0, 7, 8} \X {1, 7, 255} \X {0, 1, 2} \X {2, 3} \X {1, 2}

\* The dotted names looked up.
MapPaths ==
    {<<"measurementEnum">>, <<"ID", "Status">>, <<"Measurement", "Trigger", "Mode">>,
     <<"Measurement", "Trigger", "Source">>, <<"Measurement", "Trigger", "SourceType">>,
     <<"blockLength">>, <<"ID", "SerialNumber">>, <<"Measurement", "StopPixel">>,
     <<"Timestamp">>, <<"ID", "Serial">>, <<"Measurement", "Trigger", "Kind">>}

InitMap ==
    /\ \E raws \in EnumRaws : file = HeaderBytes(raws)
    /\ out = [op |-> "none", arg |-> <<>>, exc |-> "none", val |-> 0, after |-> "none"]
    /\ ts = NoTimestamp
    /\ pathKind = "file"
    /\ entry = "none"
    /\ pc = "start"
    /\ pos = 0
    /\ nopen = 0
    /\ err = "none"
    /\ prelude = <<>>
    /\ preamble = NoPreamble
    /\ channels = <<>>
    /\ starts = <<>>
    /\ shortRead = FALSE
    /\ longSize = 0
    /\ strf = NoSTR
    /\ framesDone = 0
    /\ framesAt = 0
    /\ result = "none"

\* One dotted lookup on the mapping of the header; `after` keeps how the
\* lookup before it ended.
MapAccess ==
    /\ \E path \in MapPaths :
        LET r == GetPath(file, [type |-> "AVSInfoBlock", at |-> 0], path)
        IN  out' = [op |-> "getattr", arg |-> path, exc |-> r.exc, val |-> r.val,
                    after |-> out.exc]
    /\ ObjectUnchanged

NextMap == MapAccess

SpecMap == InitMap /\ [][NextMap]_vars

\* ================================================================ claims
Returned(kind) == pc = "done" /\ result = kind

\* The channel count in the preamble of the file.
DeclaredChannels == ByteAt(file, OffPreambleCount)

\* C1: a regular file that parses with channel count C in its preamble has
\* len(file) = C, file[i] is the i-th decoded channel for 0 <= i < C, and
\* file[C] raises IndexError.
C1_LenAndIndex ==
    Returned("AVS") =>
        /\ Len(channels) = DeclaredChannels
        /\ out.op = "len" => out.val = DeclaredChannels
        /\ (out.op = "index" /\ out.arg >= 0 /\ out.arg < DeclaredChannels) =>
                /\ out.exc = "none"
                /\ out.val = out.arg
                /\ channels[out.val + 1].header = AVSHeaderAt(file, starts[out.arg + 1])
        /\ (out.op = "index" /\ out.arg = DeclaredChannels) => out.exc = "IndexError"

C1_Witness ==
    /\ Returned("AVS")
    /\ DeclaredChannels = MaxChannels
    /\ out.op = "index"
    /\ out.arg = DeclaredChannels
    /\ out.exc = "IndexError"

SerialOf(p) == channels[p].header.SerialNumber

\* C2 as stated: for every channel at position p, file[channel.serial] is
\* file[p], whatever serial numbers the channels carry (here on files read
\* to their end without a short read).
C2_LookupEveryChannel ==
    (Returned("AVS") /\ ~shortRead /\ out.op = "lookup") =>
        \A p \in 1..Len(channels) :
            SerialOf(p) = out.arg => (out.exc = "none" /\ out.val = p - 1)

\* C2 amended: file[channel.serial] is file[p] for every channel at position p
\* whose serial number no earlier channel carries; a serial number that
\* several channels carry resolves to the first of them.
C2_LookupFirstChannel ==
    (Returned("AVS") /\ out.op = "lookup") =>
        \A p \in 1..Len(channels) :
            (SerialOf(p) = out.arg /\ \A q \in 1..(p - 1) : SerialOf(q) # out.arg)
                => (out.exc = "none" /\ out.val = p - 1)

C2_Witness ==
    /\ Returned("AVS")
    /\ Len(channels) = 2
    /\ SerialOf(1) # SerialOf(2)
    /\ out.op = "lookup"
    /\ out.arg = SerialOf(2)
    /\ out.val = 1

ActiveRows(o) == o.header.StopPixel - o.header.StartPixel + 1

\* C3 as stated: signal = scope - dark per pixel: channel.signal[p] =
\* scope[p] - dark[p]; for a STRFile signal[p, f] = scope[p, f] - dark[p] for
\* every active pixel p and frame f, and file[f] is column f of signal.
C3_SignalIsScopeMinusDark ==
    /\ (Returned("AVS") /\ ~shortRead /\ out.op = "channel_signal") =>
            LET chan == channels[out.arg + 1]
            IN  /\ out.exc = "none"
                /\ Len(out.val) = Len(chan.data)
                /\ \A p \in 1..Len(chan.data) :
                        out.val[p] = ChannelScope(chan)[p] - ChannelDark(chan)[p]
    /\ (Returned("STR") /\ ~shortRead /\ out.op = "str_signal") =>
            LET scope == STRScope(strf)
                dark == STRDark(strf)
            IN  /\ out.exc = "none"
                /\ out.val.rows = scope.rows
                /\ out.val.cols = scope.cols
                /\ \A p \in 1..scope.rows : \A f \in 1..scope.cols :
                        out.val.at[p][f] = scope.at[p][f] - dark[p]
    /\ (Returned("STR") /\ ~shortRead /\ out.op = "str_index"
            /\ out.arg >= 0 /\ out.arg < Len(strf.data)) =>
            LET signal == STRSignal(strf)
            IN  /\ out.exc = "none"
                /\ signal.exc = "none"
                /\ Len(out.val) = signal.rows
                /\ \A p \in 1..signal.rows : out.val[p] = signal.at[p][out.arg + 1]

WellFormedRanges ==
    \A i \in 1..Len(channels) : channels[i].header.StopPixel >= channels[i].header.StartPixel

\* C4 as stated: for every decoded channel whose header has StartPixel <=
\* StopPixel, len(channel) is StopPixel - StartPixel + 1, the decoder read
\* 4 * (StopPixel - StartPixel + 1) floats after the header, and the data
\* array has that many rows.
C4_ChannelPixelCount ==
    (Returned("AVS") /\ WellFormedRanges) =>
        \A i \in 1..Len(channels) :
            /\ channels[i].nread = 4 * ActiveRows(channels[i])
            /\ Len(channels[i].data) = ActiveRows(channels[i])
            /\ (out.op = "channel_len" /\ out.arg = i - 1) =>
                    (out.exc = "none" /\ out.val = ActiveRows(channels[i]))

\* C5 as stated: on a file whose full-width arrays hold pixel StopPixel,
\* STRFile.pixels is StopPixel - StartPixel + 1, and the wavelength, dark,
\* ref, scope and signal views have that many rows, rows
\* StartPixel..StopPixel of the full-width arrays.
C5_STRActiveSlice ==
    (Returned("STR") /\ ~shortRead /\ strf.header.StopPixel < strf.pixels) =>
        /\ out.op = "str_pixels" => out.val = ActiveRows(strf)
        /\ out.op = "str_wavelength" =>
                /\ Len(out.val) = ActiveRows(strf)
                /\ \A k \in 1..Len(out.val) : out.val[k] = strf.wavelength[strf.header.StartPixel + k]
        /\ out.op = "str_dark" => Len(out.val) = ActiveRows(strf)
        /\ out.op = "str_ref" => Len(out.val) = ActiveRows(strf)
        /\ out.op = "str_scope" => out.val.rows = ActiveRows(strf)
        /\ (out.op = "str_signal" /\ out.exc = "none") => out.val.rows = ActiveRows(strf)

RECURSIVE BlockBytes(_)
BlockBytes(n) ==
    IF n = 0 THEN 0 ELSE BlockBytes(n - 1) + channels[n].header.blockLength + PADDING

\* C7: after block i the stream is at start_i + blockLength_i + 10, so N
\* blocks consume the sum of (blockLength_i + 10) from the position after the
\* preamble, whatever payload each block declared.
C7_BlockTraversal ==
    (pc \in {"avs_chan", "done"} /\ (pc = "done" => result = "AVS")) =>
        /\ \A i \in 1..Len(channels) :
              LET after == IF i < Len(starts) THEN starts[i + 1] ELSE pos
              IN  after = starts[i] + channels[i].header.blockLength + PADDING
        /\ Len(channels) > 0 => pos = starts[1] + BlockBytes(Len(channels))

C7_Witness ==
    /\ Returned("AVS")
    /\ Len(channels) = 2
    /\ ~shortRead
    /\ ActiveRows(channels[1]) # ActiveRows(channels[2])
    /\ pos = SizeofAVSPreamble + BlockBytes(2)

\* C8 as stated: each frame is a 4-byte delay and pixels * 8 payload bytes, so
\* the frames read so far advanced the stream by 4 + pixels * 8 bytes each,
\* on every platform.
C8_FrameStride ==
    ((pc = "str_frame" \/ Returned("STR")) /\ ~shortRead) =>
        pos = framesAt + framesDone * (4 + strf.pixels * SizeofDouble)

\* C9 as stated: when the stream ends before a header record or a declared
\* payload is fully read, construction fails and no file object is returned.
C9_ShortReadFails == shortRead => (result = "none" /\ pc # "done")

\* C10 as stated: read_file on an existing regular file whose first three
\* bytes are neither AVS nor STR ends with AvaReadException, whatever the
\* version bytes and the length, and returns no object.
C10_BadMagicIsFormatError ==
    (/\ entry = "read_file"
     /\ pathKind = "file"
     /\ file.size >= 5
     /\ ReadBytes(file, 3) \notin {MagicAVS, MagicSTR}
     /\ pc \in {"failed", "done"})
        => (pc = "failed" /\ err = "AvaReadException")

\* The five fields read back from a decoded date-time.
DecodedTuple ==
    [year |-> ts.date.year, month |-> ts.date.month, day |-> ts.date.day,
     hour |-> ts.date.hour, minute |-> ts.date.minute]

\* The tuple names a day of the proleptic Gregorian calendar from year 1 on.
CalendarDate(t) == t.year >= 1 /\ t.day <= DaysInMonth(t.year, t.month)

\* C6 as stated: every tuple with year < 4096, month in 1..12, day in 1..31,
\* hour in 0..23 and minute in 0..59, packed and decoded, comes back as a
\* date-time with the original five fields.
C6_RoundTripEveryTuple ==
    ts.stage = "decoded" => (ts.date.exc = "none" /\ DecodedTuple = ts.in)

\* C6 amended: a packed tuple that names a calendar date (year >= 1 and a day
\* the month has) decodes to a date-time with the original five fields; any
\* other tuple of the stated ranges makes the decoder raise ValueError.
C6_RoundTripCalendarDates ==
    ts.stage = "decoded" =>
        IF CalendarDate(ts.in)
        THEN ts.date.exc = "none" /\ DecodedTuple = ts.in
        ELSE ts.date.exc = "ValueError"

C6_Witness ==
    /\ ts.stage = "decoded"
    /\ ts.in = [year |-> 2024, month |-> 2, day |-> 29, hour |-> 23, minute |-> 59]
    /\ ts.date.exc = "none"
    /\ DecodedTuple = ts.in

\* The date-time the first channel's header stores (MiscInfo file_datetime),
\* decoded.
StoredDate(chan) == ExtractDatetime(chan.header.file_datetime)

\* C11 as stated: on a parsed regular file with at least one channel whose
\* header was read whole, file.date is channels[0].date, a channel's date is
\* _extract_datetime of the packed file_datetime of its header, and file.date
\* succeeds whenever that value encodes a calendar date.
C11_FileDateIsFirstChannelDate ==
    (Returned("AVS") /\ ~shortRead /\ Len(channels) >= 1) =>
        /\ AVSFileDate(channels) = ChannelDate(channels[1])
        /\ (out.op = "channel_date") => (out.val = StoredDate(channels[out.arg + 1]))
        /\ (out.op = "file_date" /\ StoredDate(channels[1]).exc = "none") =>
                (out.exc = "none" /\ out.val = StoredDate(channels[1]))

\* read_file has finished on a regular file whose five leading bytes decode:
\* a UTF-8 tag and a version that is a number.
ReadFileDecoded ==
    /\ entry = "read_file"
    /\ pathKind = "file"
    /\ pc \in {"failed", "done"}
    /\ Len(prelude) = 5
    /\ Utf8Valid(PySlice(prelude, 0, 3))
    /\ IntOfBytes(PySlice(prelude, 3, 5)) # IntError

ProbedTag == Upper(PySlice(prelude, 0, 3))
ProbedVersion == IntOfBytes(PySlice(prelude, 3, 5))

\* C12 as stated: read_file fails with AvaReadException exactly when the
\* version is below 8 or the tag, compared without regard to letter case, is
\* neither AVS nor STR; otherwise an AVS-tagged file goes to the regular
\* parser and a STR-tagged file to the STR parser, and neither is rejected with
\* AvaReadException.
C12_DispatchByTagAndVersion ==
    ReadFileDecoded =>
        IF ProbedTag \in {MagicAVS, MagicSTR} /\ ~VersionTooOld(ProbedVersion)
        THEN /\ ~(pc = "failed" /\ err = "AvaReadException")
             /\ (pc = "done" /\ ProbedTag = MagicAVS) => result = "AVS"
             /\ (pc = "done" /\ ProbedTag = MagicSTR) => result = "STR"
        ELSE pc = "failed" /\ err = "AvaReadException"

\* C13: a handle is open only while read_file probes or a parser reads: the
\* probe handle is closed before a parser opens the file, so at most one
\* handle is open at any time, and none is open once the operation has
\* returned or raised, whichever way it ended.
C13_HandleLifecycle ==
    /\ nopen \in {0, 1}
    /\ nopen = 1 <=> pc \in {"probing", "avs_chan", "str_frame", "raising"}
    /\ pc \in {"probed", "avs_new", "str_new"} => nopen = 0
    /\ pc \in {"done", "failed"} => nopen = 0

\* read_file probed the file, the parser opened it again and failed on a short
\* read, and no handle is left open.
C13_Witness ==
    /\ entry = "read_file"
    /\ pc = "failed"
    /\ shortRead
    /\ err = "ValueError"
    /\ preamble.FileType = MagicAVS
    /\ nopen = 0

\* Float number j (from 0) of the payload that follows the header of the
\* channel at position i (from 1), as the file holds it.
PayloadAt(i, j) == WordAt(file, starts[i] + SizeofAVSInfoBlock + SizeofFloat * j, SizeofFloat)

\* The plane an accessor of a channel returns: 0 wavelength, 1 scope, 2 dark,
\* 3 ref.
PlaneOf(op) ==
    CASE op = "channel_wavelength" -> 0
      [] op = "channel_scope" -> 1
      [] op = "channel_dark" -> 2
      [] op = "channel_ref" -> 3

PlaneOps == {"channel_wavelength", "channel_scope", "channel_dark", "channel_ref"}

\* C14: for a channel of n = StopPixel - StartPixel + 1 pixels whose 4 * n
\* floats were read, wavelength, scope, dark and ref have n entries and entry
\* p of plane k is float k * n + p of the payload.
C14_PlaneMajor ==
    (Returned("AVS") /\ out.op \in PlaneOps) =>
        LET i == out.arg + 1
            n == ActiveRows(channels[i])
            k == PlaneOf(out.op)
        IN  (n >= 1 /\ channels[i].nread = 4 * n) =>
                /\ Len(out.val) = n
                /\ \A p \in 0..(n - 1) : out.val[p + 1] = PayloadAt(i, k * n + p)
                /\ \A p \in 0..(n - 1) : channels[i].data[p + 1][k + 1] = PayloadAt(i, k * n + p)

\* The scope of a channel of several pixels was read, and it differs from
\* what the neighbouring floats of the payload hold.
C14_Witness ==
    /\ Returned("AVS")
    /\ out.op = "channel_scope"
    /\ ActiveRows(channels[out.arg + 1]) = MaxPixel + 1
    /\ channels[out.arg + 1].nread = 4 * (MaxPixel + 1)
    /\ Len(out.val) = MaxPixel + 1
    /\ out.val[2] = PayloadAt(out.arg + 1, MaxPixel + 2)
    /\ out.val[2] # PayloadAt(out.arg + 1, 5)

\* The enumerated fields: dotted name, offset of the byte in the header, and
\* the values the enumeration declares.
EnumFields ==
    {[path |-> <<"measurementEnum">>, off |-> 5, members |-> 0..7],
     [path |-> <<"ID", "Status">>, off |-> 82, members |-> 0..7],
     [path |-> <<"Measurement", "Trigger", "Mode">>, off |-> 105, members |-> {0, 1}],
     [path |-> <<"Measurement", "Trigger", "Source">>, off |-> 106, members |-> {0, 1, 2}],
     [path |-> <<"Measurement", "Trigger", "SourceType">>, off |-> 107, members |-> {0, 1}]}

NotFields == {<<"Timestamp">>, <<"ID", "Serial">>, <<"Measurement", "Trigger", "Kind">>}

\* What a lookup returned, whatever the lookup before it did.
C15_AccessResults ==
    out.op = "getattr" =>
        /\ \A e \in EnumFields :
              out.arg = e.path =>
                  IF ByteAt(file, e.off) \in e.members
                  THEN out.exc = "none" /\ out.val.value = ByteAt(file, e.off)
                  ELSE out.exc = "ValueError"
        /\ out.arg \in NotFields => out.exc = "AttributeError"
        /\ out.arg = <<"blockLength">> => (out.exc = "none" /\ out.val = SizeofAVSInfoBlock)
        /\ out.arg = <<"ID", "SerialNumber">> => (out.exc = "none" /\ out.val = SerialA)
        /\ out.arg = <<"Measurement", "StopPixel">> => (out.exc = "none" /\ out.val = MaxPixel)

\* C15: an enumerated field read through the mapping is the member of the raw
\* value, or ValueError when no member has that value, never another member;
\* a name that is no field raises AttributeError; and no lookup, failed or
\* not, changes the header, so every field reads as before afterwards.
C15_FieldMapperPolicy == []C15_AccessResults /\ [][file' = file]_vars

\* After a lookup of an enumerated field failed, another field was read and
\* has its value.
C15_Witness ==
    /\ out.op = "getattr"
    /\ out.after = "ValueError"
    /\ out.arg = <<"Measurement", "Trigger", "Source">>
    /\ out.exc = "none"
    /\ out.val.value = 2

====
